---------------------------- MODULE Spec2Model ----------------------------
(***************************************************************************)
(* StockLake: the three pipeline scripts                                   *)
(*   data_ingestion/fetch_news.py        (fetch raw news, upload raw JSON) *)
(*   data_processing/process_news.py     (normalize, score, validate,      *)
(*                                        write CSV + Parquet)             *)
(*   data_processing/process_stocks.py   (per-symbol OHLCV coercion and    *)
(*                                        Parquet snapshot)                *)
(* modelled as one state machine.  A behaviour is one deployment: a        *)
(* configuration, a blob store holding that day's raw blobs, and one of    *)
(* the scripts launched up to MaxRuns times.                               *)
(*                                                                         *)
(* Text is a sequence of one-character strings, so that strip(), upper()   *)
(* and the numeric / date parsers are computed and not assumed.  Floats    *)
(* that only matter through comparisons are kept in hundredths.            *)
(***************************************************************************)
EXTENDS Integers, Sequences, FiniteSets, TLC

VARIABLES
  script,   \* which script this process executes
  bucket,   \* S3_BUCKET: "set" or "unset" (None)
  store,    \* the blob store: a function from the keys present to their bodies
  pc,       \* "idle", "running", "fetched", "done" or "crashed" (uncaught exception)
  idx,      \* process_stocks: position of the loop over STOCK_SYMBOLS
  runs,     \* how many times the script has been launched
  data,     \* fetch_news: the value returned by fetch_news(QUERY)
  puts,     \* upload_fileobj calls issued in the current run, in order
  batch,    \* process_news: the frame handed to upload_df_to_s3 in the current run
  failures, \* uploads the blob store has refused so far
  fetches,  \* HTTP requests issued to the news provider in the current run
  gets      \* get_object requests issued to the blob store in the current run

vars ==
  <<script, bucket, store, pc, idx, runs, data, puts, batch, failures, fetches, gets>>

---------------------------------------------------------------------------
(* Bounds of the model *)

MaxArticles == 2   \* longest "articles" list of a raw news payload
MaxOdd == 1        \* how many symbols may hold a raw blob other than the nominal one
MaxRuns == 2       \* launches of the script in one behaviour
MaxFailures == 1   \* uploads the blob store may refuse in one behaviour

---------------------------------------------------------------------------
(* Text *)

Whitespace == {" "}

RECURSIVE LStrip(_)
LStrip(s) == IF s # <<>> /\ Head(s) \in Whitespace THEN LStrip(Tail(s)) ELSE s

RECURSIVE RStrip(_)
RStrip(s) ==
  IF s # <<>> /\ s[Len(s)] \in Whitespace THEN RStrip(SubSeq(s, 1, Len(s) - 1)) ELSE s

\* str.strip()
Strip(s) == RStrip(LStrip(s))

DigitVal == ("0" :> 0) @@ ("1" :> 1) @@ ("2" :> 2) @@ ("3" :> 3) @@ ("4" :> 4) @@
            ("5" :> 5) @@ ("6" :> 6) @@ ("7" :> 7) @@ ("8" :> 8) @@ ("9" :> 9)

IsDigits(s) == s # <<>> /\ \A i \in 1..Len(s) : s[i] \in DOMAIN DigitVal

RECURSIVE DigitsValue(_)
DigitsValue(s) ==
  IF s = <<>> THEN 0 ELSE 10 * DigitsValue(SubSeq(s, 1, Len(s) - 1)) + DigitVal[s[Len(s)]]

Unsigned(s) == IF s # <<>> /\ Head(s) = "-" THEN Tail(s) ELSE s
Sign(s) == IF s # <<>> /\ Head(s) = "-" THEN -1 ELSE 1

\* int(text), as Series.astype("int64") applies it to a string: an optional sign
\* and digits; anything else is a ValueError (ok = FALSE).
ParseInt(s) ==
  IF IsDigits(Unsigned(s))
    THEN [ok |-> TRUE, val |-> Sign(s) * DigitsValue(Unsigned(s))]
    ELSE [ok |-> FALSE, val |-> 0]

DotAt(s) == {i \in 1..Len(s) : s[i] = "."}

\* float(text), as Series.astype("float") applies it to a string.  The value is
\* kept exactly: num * 10^-exp.
ParseFloat(s) ==
  LET u == Unsigned(s)
      d == DotAt(u)
  IN  IF d = {}
        THEN IF IsDigits(u)
               THEN [ok |-> TRUE, num |-> Sign(s) * DigitsValue(u), exp |-> 0]
               ELSE [ok |-> FALSE, num |-> 0, exp |-> 0]
        ELSE LET i == CHOOSE j \in d : TRUE
                 whole == SubSeq(u, 1, i - 1)
                 frac == SubSeq(u, i + 1, Len(u))
             IN  IF Cardinality(d) = 1 /\ IsDigits(whole) /\ IsDigits(frac)
                   THEN [ok |-> TRUE,
                         num |-> Sign(s) * DigitsValue(whole \o frac),
                         exp |-> Len(frac)]
                   ELSE [ok |-> FALSE, num |-> 0, exp |-> 0]

\* The missing timestamp (pandas NaT).
NaT == -1

\* Date text of the model: month "-" day, one digit each.
IsDateText(s) ==
  Len(s) = 3 /\ s[1] \in DOMAIN DigitVal /\ s[2] = "-" /\ s[3] \in DOMAIN DigitVal

DateValue(s) == 10 * DigitVal[s[1]] + DigitVal[s[3]]

UpperChar(c) ==
  CASE c = "a" -> "A" [] c = "g" -> "G" [] c = "l" -> "L" [] c = "m" -> "M"
    [] c = "o" -> "O" [] c = "p" -> "P" [] c = "s" -> "S" [] c = "t" -> "T"
    [] c = "f" -> "F" [] c = "n" -> "N" [] c = "z" -> "Z"
    [] OTHER -> c

\* str.upper()
Upper(s) == [i \in 1..Len(s) |-> UpperChar(s[i])]

---------------------------------------------------------------------------
(* JSON values of the raw payloads *)

Absent == [k |-> "absent", s |-> <<>>]   \* the key is not in the object
Null == [k |-> "null", s |-> <<>>]       \* JSON null
NonStr == [k |-> "nonstr", s |-> <<>>]   \* a JSON array, object or boolean
Str(s) == [k |-> "str", s |-> s]

\* dict.get(key): None when the key is absent.
Get(v) == IF v.k = "absent" THEN Null ELSE v

\* dict.get(key, ""): the default only replaces an absent key.
GetOrEmpty(v) == IF v.k = "absent" THEN Str(<<>>) ELSE v

\* The nested "source" member: absent, null, not an object, or an object whose
\* "name" member is a JSON value.
SrcAbsent == [k |-> "absent", name |-> Absent]
SrcNull == [k |-> "null", name |-> Absent]
SrcNonObj == [k |-> "nonobj", name |-> Absent]
SrcObj(name) == [k |-> "obj", name |-> name]


---------------------------------------------------------------------------
(* Configuration and keys *)

QUERY == <<"s", "t", "o", "c", "k", "s">>
TODAY == "2024-01-05"

AAPL == <<"A", "A", "P", "L">>
TSLA == <<"T", "S", "L", "A">>
GOOGL == <<"G", "O", "O", "G", "L">>
AMZN == <<"A", "M", "Z", "N">>
MSFT == <<"M", "S", "F", "T">>
STOCK_SYMBOLS == <<AAPL, TSLA, GOOGL, AMZN, MSFT>>

\* A key is its path, kept in parts: f"{stage}/{dataset}/...{name}_{date}.{ext}".
Key(stage, dataset, name, date, ext) ==
  [stage |-> stage, dataset |-> dataset, name |-> name, date |-> date, ext |-> ext]

\* fetch_news.py: f"raw/news/{QUERY}_{today}.json"
S3_KEY == Key("raw", "news", QUERY, TODAY, "json")
\* process_news.py: f"raw/news/stocks_{TODAY}.json"
RAW_S3_KEY == Key("raw", "news", <<"s", "t", "o", "c", "k", "s">>, TODAY, "json")
CSV_S3_KEY == Key("processed", "news", <<>>, TODAY, "csv")
PARQUET_S3_KEY == Key("processed", "news", <<>>, TODAY, "parquet")

s3_key_raw(symbol) == Key("raw", "stocks", symbol, TODAY, "json")

\* Variant: the key forgets the symbol, every symbol writing the same key.
s3_key_shared(symbol) == Key("processed", "stocks", <<>>, TODAY, "parquet")

s3_key_processed(symbol) == Key("processed", "stocks", symbol, TODAY, "parquet")

---------------------------------------------------------------------------
(* The blob store *)

EmptyStore == [k \in {} |-> Null]

\* put: the body replaces whatever the key held.
PutObject(st, key, body) ==
  [k \in DOMAIN st \cup {key} |-> IF k = key THEN body ELSE st[k]]

---------------------------------------------------------------------------
(* process_news.py: the scorer *)

\* The polarity lexicon of the sentiment library, in hundredths; a word of the
\* model is one letter.
Lexicon == ("g" :> 50) @@ ("f" :> 10) @@ ("c" :> -10) @@ ("b" :> -50)

RECURSIVE SumPolarity(_)
SumPolarity(s) ==
  IF s = <<>> THEN 0
  ELSE (IF Head(s) \in DOMAIN Lexicon THEN Lexicon[Head(s)] ELSE 0) + SumPolarity(Tail(s))

KnownWords(s) == {i \in 1..Len(s) : s[i] \in DOMAIN Lexicon}

\* TextBlob(text).sentiment.polarity: the mean polarity of the words the
\* lexicon knows, 0.0 when it knows none.
TextBlobPolarity(text) ==
  IF KnownWords(text) = {} THEN 0
  ELSE LET sum == SumPolarity(text)
           n == Cardinality(KnownWords(text))
       IN  IF sum >= 0 THEN sum \div n ELSE -((-sum) \div n)

safe_strip(value) == IF value.k = "str" THEN Strip(value.s) ELSE <<>>

\* text is always a str here; the empty and the blank text score 0.0.
analyze_sentiment(text) ==
  IF text = <<>> \/ Strip(text) = <<>> THEN 0 ELSE TextBlobPolarity(text)

PositiveAbove == 10
NegativeBelow == -10

\* Variant: the thresholds themselves count as positive and negative.
get_sentiment_label_atleast(score) ==
  IF score >= PositiveAbove THEN "positive"
  ELSE IF score <= NegativeBelow THEN "negative"
  ELSE "neutral"

get_sentiment_label(score) ==
  IF score > PositiveAbove THEN "positive"
  ELSE IF score < NegativeBelow THEN "negative"
  ELSE "neutral"

---------------------------------------------------------------------------
(* process_news.py: the normalizer and the validator *)

\* article.get("source", {}).get("name"): a null or non-object "source" has no
\* get() and raises AttributeError; an absent one is the default {}.
SourceRaises(src) == src.k \in {"null", "nonobj"}

SourceName(src) == IF src.k = "obj" THEN Get(src.name) ELSE Null

\* One iteration of the loop over the articles: "skip" (continue), "raise"
\* (an exception leaves the loop) or "record" (records.append).
NormalizeArticle(article) ==
  LET title == safe_strip(Get(article.title))
      stripped == safe_strip(Get(article.content))
      content == IF stripped # <<>> THEN stripped ELSE title
      score == analyze_sentiment(content)
      label == get_sentiment_label(score)
  IN  IF content = <<>> THEN [kind |-> "skip"]
      ELSE IF SourceRaises(article.source) THEN [kind |-> "raise"]
      ELSE [kind |-> "record",
            rec |-> [published_at |-> GetOrEmpty(article.publishedAt),
                     title |-> title,
                     source |-> safe_strip(SourceName(article.source)),
                     content |-> content,
                     url |-> safe_strip(Get(article.url)),
                     urlToImage |-> safe_strip(Get(article.urlToImage)),
                     sentiment_score |-> score,
                     sentiment_label |-> label]]

\* The loop from article i on, records holding what was appended so far: the
\* records appended by the whole loop, or raised when an iteration raises.
RECURSIVE NormalizeFrom(_, _, _)
NormalizeFrom(articles, i, records) ==
  IF i > Len(articles) THEN [raised |-> FALSE, records |-> records]
  ELSE LET step == NormalizeArticle(articles[i])
       IN  CASE step.kind = "raise" -> [raised |-> TRUE, records |-> records]
             [] step.kind = "skip" -> NormalizeFrom(articles, i + 1, records)
             [] OTHER -> NormalizeFrom(articles, i + 1, Append(records, step.rec))

NormalizeAll(articles) == NormalizeFrom(articles, 1, <<>>)

\* pd.to_datetime(value, errors="coerce"): a timestamp for date text, NaT for
\* anything else (None, "", text that is no date, a non-string).
to_datetime_coerce(value) ==
  IF value.k = "str" /\ IsDateText(Strip(value.s)) THEN DateValue(Strip(value.s)) ELSE NaT

ParseDates(records) ==
  [i \in 1..Len(records) |->
     [records[i] EXCEPT !.published_at = to_datetime_coerce(records[i].published_at)]]

\* pandas isna() of a title cell: the cell is always a str (safe_strip returns
\* "" for a missing title), and no str is NA, the empty one included.
TitleIsNA(title) == FALSE

KeepRow(row) == ~TitleIsNA(row.title) /\ row.published_at # NaT

\* df.dropna(subset=["title", "published_at"])
dropna(df) == SelectSeq(df, KeepRow)

---------------------------------------------------------------------------
(* process_news.py: the snapshot writer and process_news() *)

CsvBody(df) == [enc |-> "csv", rows |-> df]
ParquetBody(df) == [enc |-> "parquet", rows |-> df]

PutCall(key, body, ok) == [key |-> key, body |-> body, ok |-> ok]

\* upload_df_to_s3(df) of process_news.py: one try block around both uploads.
\* An upload that raises leaves the block, so a failed CSV upload is the end of
\* it; the handler logs and returns.
news_upload_df_to_s3(st, df, csvOk, parquetOk) ==
  LET afterCsv == IF csvOk THEN PutObject(st, CSV_S3_KEY, CsvBody(df)) ELSE st
      csvCall == PutCall(CSV_S3_KEY, CsvBody(df), csvOk)
      parquetCall == PutCall(PARQUET_S3_KEY, ParquetBody(df), parquetOk)
  IN  IF ~csvOk
        THEN [store |-> st, puts |-> <<csvCall>>]
        ELSE [store |-> IF parquetOk
                          THEN PutObject(afterCsv, PARQUET_S3_KEY, ParquetBody(df))
                          ELSE afterCsv,
              puts |-> <<csvCall, parquetCall>>]

\* A raw news payload: the JSON object stored under RAW_S3_KEY.  keys is
\* "none" for {}, "other" for an object without "articles", "articles"
\* otherwise.
NewsPayload(keys, articles) == [keys |-> keys, articles |-> articles]

NoBatch == [made |-> FALSE, rows |-> <<>>]

\* download_json_from_s3(key): the parsed body, or {} when the request fails
\* (no such key, or no bucket to ask).
DownloadFails(st, key) == bucket = "unset" \/ key \notin DOMAIN st

\* process_news(), from the download to the return of upload_df_to_s3.
process_news(st, csvOk, parquetOk) ==
  LET quiet == [pc |-> "done", store |-> st, puts |-> <<>>, batch |-> NoBatch]
  IN  IF DownloadFails(st, RAW_S3_KEY) THEN quiet
      ELSE LET payload == st[RAW_S3_KEY]
           IN  IF payload.keys # "articles" \/ payload.articles = <<>> THEN quiet
               ELSE LET norm == NormalizeAll(payload.articles)
                    IN  IF norm.raised THEN [quiet EXCEPT !.pc = "crashed"]
                        ELSE IF norm.records = <<>> THEN quiet
                        ELSE LET df == dropna(ParseDates(norm.records))
                                 up == news_upload_df_to_s3(st, df, csvOk, parquetOk)
                             IN  [pc |-> "done", store |-> up.store, puts |-> up.puts,
                                  batch |-> [made |-> TRUE, rows |-> df]]

---------------------------------------------------------------------------
(* process_stocks.py *)

\* A raw price payload: the JSON object stored under s3_key_raw(symbol).
\* note / err / other: whether it has the key "Note", the key "Error Message",
\* any other key (such as "Meta Data"); ts: its "Time Series (Daily)" member,
\* absent or a list of date-keyed entries, each the values of its fields in
\* the order of the object.
PricePayload(note, err, other, ts) == [note |-> note, err |-> err, other |-> other, ts |-> ts]

TsAbsent == [k |-> "absent", rows |-> <<>>]
TsRows(rows) == [k |-> "rows", rows |-> rows]
Entry(date, vals) == [date |-> date, vals |-> vals]

\* not data: the object has no key at all.
IsEmptyObject(payload) ==
  ~payload.note /\ ~payload.err /\ ~payload.other /\ payload.ts.k = "absent"

\* Variant: only the rate-limit marker is tested.
IsSentinelNoteOnly(payload) == payload.note

\* "Note" in data, or "Error Message" in data
IsSentinel(payload) == payload.note \/ payload.err

\* df.columns = [six names]: the frame must have the index and five columns.
ColumnsFit(rows) == \A i \in 1..Len(rows) : Len(rows[i].vals) = 5

\* df.astype({...}) and pd.to_datetime(df["date"]) succeed.
Coerces(rows) ==
  \A i \in 1..Len(rows) :
    /\ \A c \in 1..4 : ParseFloat(rows[i].vals[c]).ok
    /\ ParseInt(rows[i].vals[5]).ok
    /\ IsDateText(rows[i].date)

FloatOf(text) == [num |-> ParseFloat(text).num, exp |-> ParseFloat(text).exp]

PriceRow(symbol, entry) ==
  [date |-> DateValue(entry.date),
   symbol |-> Upper(symbol),
   open |-> FloatOf(entry.vals[1]),
   high |-> FloatOf(entry.vals[2]),
   low |-> FloatOf(entry.vals[3]),
   close |-> FloatOf(entry.vals[4]),
   volume |-> ParseInt(entry.vals[5]).val]

\* The body of the try block up to the upload: the typed frame, or an exception.
BuildFrame(symbol, rows) ==
  IF ColumnsFit(rows) /\ Coerces(rows)
    THEN [ok |-> TRUE, df |-> [i \in 1..Len(rows) |-> PriceRow(symbol, rows[i])]]
    ELSE [ok |-> FALSE, df |-> <<>>]

Returned(st) == [raised |-> FALSE, store |-> st, puts |-> <<>>]

\* Variant: the exception leaves process_stock_file.
OnProcessingErrorReraise(st) == [raised |-> TRUE, store |-> st, puts |-> <<>>]

\* except Exception as e: logging.error(...)
OnProcessingError(st) == Returned(st)

\* upload_df_to_s3(df, s3_key) of process_stocks.py: a failed upload is logged.
stock_upload_df_to_s3(st, df, s3_key, ok) ==
  [raised |-> FALSE,
   store |-> IF ok THEN PutObject(st, s3_key, ParquetBody(df)) ELSE st,
   puts |-> <<PutCall(s3_key, ParquetBody(df), ok)>>]

\* process_stock_file(symbol)
process_stock_file(symbol, st, ok) ==
  IF DownloadFails(st, s3_key_raw(symbol)) THEN Returned(st)
  ELSE LET payload == st[s3_key_raw(symbol)]
       IN  IF IsEmptyObject(payload) THEN Returned(st)
           ELSE IF IsSentinel(payload) THEN Returned(st)
           ELSE IF payload.ts.rows = <<>> THEN Returned(st)
           ELSE LET frame == BuildFrame(symbol, payload.ts.rows)
                IN  IF ~frame.ok THEN OnProcessingError(st)
                    ELSE stock_upload_df_to_s3(st, frame.df, s3_key_processed(symbol), ok)

---------------------------------------------------------------------------
(* fetch_news.py *)

\* fetch_news(query): response.json() on status 200, {} otherwise.
fetch_news(status, body) == IF status = 200 THEN body ELSE NewsPayload("none", <<>>)

RawBody(payload) == [enc |-> "json", rows |-> payload]

\* upload_json_to_s3(data, s3_key): ValueError when S3_BUCKET is not set, and
\* a failed upload is printed.
upload_json_to_s3(st, payload, s3_key, ok) ==
  IF bucket = "unset" THEN [raised |-> TRUE, store |-> st, puts |-> <<>>]
  ELSE [raised |-> FALSE,
        store |-> IF ok THEN PutObject(st, s3_key, payload) ELSE st,
        puts |-> <<PutCall(s3_key, RawBody(payload), ok)>>]

---------------------------------------------------------------------------
(* The raw inputs the environment may supply *)

\* News: a nominal article, articles that differ from it in one field (absent,
\* null, not a string, blank, other text), and the article with neither title
\* nor content.
BaseArticle ==
  [title |-> Str(<<" ", "g", " ">>),
   content |-> Str(<<"f">>),
   publishedAt |-> Str(<<"1", "-", "5">>),
   source |-> SrcObj(Str(<<" ", "r", " ">>)),
   url |-> Str(<<" ", "u">>),
   urlToImage |-> Str(<<"i", " ">>)]

Articles ==
  {BaseArticle,
   [BaseArticle EXCEPT !.title = Absent],
   [BaseArticle EXCEPT !.title = Null],
   [BaseArticle EXCEPT !.title = NonStr],
   [BaseArticle EXCEPT !.content = Null],
   [BaseArticle EXCEPT !.content = Str(<<" ">>)],
   [BaseArticle EXCEPT !.content = Str(<<" ", "c">>)],
   [BaseArticle EXCEPT !.content = Str(<<"b", " ", "z">>)],
   [BaseArticle EXCEPT !.publishedAt = Absent],
   [BaseArticle EXCEPT !.publishedAt = Str(<<"x">>)],
   [BaseArticle EXCEPT !.source = SrcAbsent],
   [BaseArticle EXCEPT !.source = SrcNull],
   [BaseArticle EXCEPT !.source = SrcObj(Null)],
   [BaseArticle EXCEPT !.url = NonStr],
   [BaseArticle EXCEPT !.urlToImage = Absent],
   [BaseArticle EXCEPT !.title = Absent, !.content = NonStr]}

ArticleLists == UNION {[1..n -> Articles] : n \in 0..MaxArticles}

NewsPayloads ==
  {NewsPayload("none", <<>>), NewsPayload("other", <<>>)}
    \cup {NewsPayload("articles", a) : a \in ArticleLists}

\* What the news provider may answer: the payloads of at most one article.
FetchedPayloads == {p \in NewsPayloads : Len(p.articles) <= 1}

\* Prices: the nominal payload, and the payloads that are odd in one way.
T19 == <<"1", "9">>
T20 == <<"2", "0">>
T18 == <<"1", "8">>
T195 == <<"1", "9", ".", "5">>
T100 == <<"1", "0", "0">>
Day5 == <<"1", "-", "5">>
Day6 == <<"1", "-", "6">>

GoodEntry == Entry(Day5, <<T19, T20, T18, T195, T100>>)
GoodPayload == PricePayload(FALSE, FALSE, TRUE, TsRows(<<GoodEntry>>))

OddPayloads ==
  {PricePayload(TRUE, FALSE, FALSE, TsAbsent),                  \* rate limit
   PricePayload(FALSE, TRUE, FALSE, TsAbsent),                  \* API error
   PricePayload(TRUE, FALSE, TRUE, TsRows(<<GoodEntry>>)),      \* marker beside data
   PricePayload(FALSE, TRUE, TRUE, TsRows(<<GoodEntry>>)),
   PricePayload(FALSE, FALSE, TRUE, TsRows(<<>>)),              \* empty series
   PricePayload(FALSE, FALSE, TRUE,                             \* negative volume
     TsRows(<<GoodEntry, Entry(Day6, <<T20, T20, T19, T19, <<"-", "7">>>>)>>)),
   PricePayload(FALSE, FALSE, TRUE,                             \* non-numeric price
     TsRows(<<Entry(Day5, <<T19, <<"x">>, T18, T195, T100>>)>>)),
   PricePayload(FALSE, FALSE, TRUE,                             \* a field short
     TsRows(<<Entry(Day5, <<T19, T20, T18, T195>>)>>))}

SymbolIndex == 1..Len(STOCK_SYMBOLS)

\* The raw price blobs of the day: a symbol's blob is missing, odd or nominal.
StockStore(missing, odd) ==
  [k \in {s3_key_raw(STOCK_SYMBOLS[i]) : i \in SymbolIndex \ missing} |->
     LET i == CHOOSE j \in SymbolIndex : s3_key_raw(STOCK_SYMBOLS[j]) = k
     IN  IF i \in DOMAIN odd THEN odd[i] ELSE GoodPayload]

Scripts == {"fetch_news", "process_news", "process_stocks"}

---------------------------------------------------------------------------
(* The state machine *)

Idle ==
  /\ pc = "idle"
  /\ idx = 1
  /\ runs = 0
  /\ data = NewsPayload("none", <<>>)
  /\ puts = <<>>
  /\ batch = NoBatch
  /\ failures = 0
  /\ fetches = 0
  /\ gets = 0

InitFetch ==
  /\ script = "fetch_news"
  /\ store = EmptyStore

InitNews ==
  /\ script = "process_news"
  /\ \/ store = EmptyStore
     \/ \E payload \in NewsPayloads : store = PutObject(EmptyStore, RAW_S3_KEY, payload)

InitStocks ==
  /\ script = "process_stocks"
  /\ \E affected \in SUBSET SymbolIndex :
       /\ Cardinality(affected) <= MaxOdd
       /\ \E missing \in SUBSET affected :
            \E odd \in [affected \ missing -> OddPayloads] :
              store = StockStore(missing, odd)

\* The refused uploads among the calls of a step, within the budget.
Refused(calls) == Cardinality({i \in 1..Len(calls) : ~calls[i].ok})

Init ==
  /\ bucket \in {"set", "unset"}
  /\ Idle
  /\ (InitFetch \/ InitNews \/ InitStocks)

\* The script is started: the module-level code resolves the configuration and
\* the keys; nothing is checked there.
Launch ==
  /\ pc \in {"idle", "done", "crashed"}
  /\ runs < MaxRuns
  /\ pc' = "running"
  /\ runs' = runs + 1
  /\ idx' = 1
  /\ data' = NewsPayload("none", <<>>)
  /\ puts' = <<>>
  /\ batch' = NoBatch
  /\ fetches' = 0
  /\ gets' = 0
  /\ UNCHANGED <<script, bucket, store, failures>>

\* fetch_news.py, __main__: data = fetch_news(QUERY)
FetchNews ==
  /\ script = "fetch_news"
  /\ pc = "running"
  /\ \E status \in {200, 500}, body \in FetchedPayloads :
       data' = fetch_news(status, body)
  /\ fetches' = fetches + 1
  /\ pc' = "fetched"
  /\ UNCHANGED <<script, bucket, store, idx, runs, puts, batch, failures, gets>>

\* fetch_news.py, __main__: if data: upload_json_to_s3(data, S3_KEY)
UploadJson ==
  /\ script = "fetch_news"
  /\ pc = "fetched"
  /\ \E ok \in BOOLEAN :
     \E r \in {upload_json_to_s3(store, data, S3_KEY, ok)} :
           IF data.keys = "none"
             THEN pc' = "done" /\ UNCHANGED <<store, puts, failures>>
             ELSE /\ failures + Refused(r.puts) <= MaxFailures
                  /\ failures' = failures + Refused(r.puts)
                  /\ pc' = IF r.raised THEN "crashed" ELSE "done"
                  /\ store' = r.store
                  /\ puts' = puts \o r.puts
  /\ UNCHANGED <<script, bucket, idx, runs, data, batch, fetches, gets>>

\* process_news.py, __main__: process_news()
ProcessNews ==
  /\ script = "process_news"
  /\ pc = "running"
  /\ \E csvOk \in BOOLEAN, parquetOk \in BOOLEAN :
     \E r \in {process_news(store, csvOk, parquetOk)} :
           /\ failures + Refused(r.puts) <= MaxFailures
           /\ failures' = failures + Refused(r.puts)
           /\ pc' = r.pc
           /\ store' = r.store
           /\ puts' = r.puts
           /\ batch' = r.batch
  /\ gets' = IF bucket = "set" THEN gets + 1 ELSE gets
  /\ UNCHANGED <<script, bucket, idx, runs, data, fetches>>

\* process_stocks.py, __main__: one iteration of
\* for symbol in STOCK_SYMBOLS: process_stock_file(symbol)
ProcessStockFile ==
  /\ script = "process_stocks"
  /\ pc = "running"
  /\ idx <= Len(STOCK_SYMBOLS)
  /\ \E ok \in BOOLEAN :
     \E r \in {process_stock_file(STOCK_SYMBOLS[idx], store, ok)} :
           /\ failures + Refused(r.puts) <= MaxFailures
           /\ failures' = failures + Refused(r.puts)
           /\ pc' = IF r.raised THEN "crashed"
                    ELSE IF idx = Len(STOCK_SYMBOLS) THEN "done" ELSE "running"
           /\ store' = r.store
           /\ puts' = puts \o r.puts
  /\ idx' = idx + 1
  /\ gets' = IF bucket = "set" THEN gets + 1 ELSE gets
  /\ UNCHANGED <<script, bucket, runs, data, batch, fetches>>

Next == Launch \/ FetchNews \/ UploadJson \/ ProcessNews \/ ProcessStockFile

Spec == Init /\ [][Next]_vars

---------------------------------------------------------------------------
(* Properties *)

PutKeys == {puts[i].key : i \in 1..Len(puts)}

\* C1: in the news snapshot writer the two uploads are independent: whenever
\* a batch is handed to it, both the CSV key and the Parquet key are
\* attempted, whatever the outcome of the other upload.
C1_UploadsIndependent ==
  (script = "process_news" /\ batch.made) => PutKeys = {CSV_S3_KEY, PARQUET_S3_KEY}

\* C2: when the validated batch has no row, process_news issues no put.
C2_NoEmptySnapshot ==
  (script = "process_news" /\ batch.made /\ batch.rows = <<>>) => puts = <<>>

\* C3: every row handed to the snapshot writer has a non-empty title and a
\* non-null published_at.
C3_RowsHaveTitleAndDate ==
  (script = "process_news" /\ batch.made) =>
    \A i \in 1..Len(batch.rows) :
      batch.rows[i].title # <<>> /\ batch.rows[i].published_at # NaT

\* C4: normalization never raises, whatever shape the fields of an article
\* have: process_news never ends with an uncaught exception.
C4_NormalizationNeverRaises == script = "process_news" => pc # "crashed"

RawPrice(j) == store[s3_key_raw(STOCK_SYMBOLS[j])]

HasSentinel(j) ==
  /\ s3_key_raw(STOCK_SYMBOLS[j]) \in DOMAIN store
  /\ (RawPrice(j).note \/ RawPrice(j).err)

\* C5: a symbol whose raw payload has the key "Note" or "Error Message" gets
\* no record and no put in that run, also when a time series is present.
C5_SentinelWritesNothing ==
  script = "process_stocks" =>
    \A j \in SymbolIndex :
      HasSentinel(j) =>
        \A i \in 1..Len(puts) :
          ~(puts[i].key.stage = "processed" /\ puts[i].key.name = STOCK_SYMBOLS[j])

C5_Witness ==
  /\ script = "process_stocks"
  /\ pc = "done"
  /\ puts # <<>>
  /\ \E j \in SymbolIndex :
       HasSentinel(j) /\ RawPrice(j).err /\ RawPrice(j).ts.rows # <<>>

OwnProcessedKey(k, symbol) ==
  k.stage = "processed" /\ k.dataset = "stocks" /\ k.name = symbol

Fails(j) ==
  \/ s3_key_raw(STOCK_SYMBOLS[j]) \notin DOMAIN store
  \/ IsSentinel(RawPrice(j))
  \/ RawPrice(j).ts.rows = <<>>
  \/ ~BuildFrame(STOCK_SYMBOLS[j], RawPrice(j).ts.rows).ok

C7_NoWorkWithoutBucket ==
  bucket = "unset" => (fetches = 0 /\ gets = 0 /\ puts = <<>>)

\* The processed keys of the day: processed/news/processed_news_<date>.csv and
\* .parquet, processed/stocks/processed_stocks_<SYMBOL>_<date>.parquet.
PartitionKeys ==
  {Key("processed", "news", <<>>, TODAY, ext) : ext \in {"csv", "parquet"}}
    \cup {Key("processed", "stocks", STOCK_SYMBOLS[i], TODAY, "parquet") : i \in SymbolIndex}

ProcessedKeys(st) == {k \in DOMAIN st : k.stage = "processed"}

\* C8: running the processing again on the same raw blobs and date rewrites
\* the same keys with the same contents: no step changes the body under a
\* processed key that is already there, removes one, or creates a key
\* outside the date/symbol partition.
C8_RerunIsIdempotent ==
  [][/\ \A k \in ProcessedKeys(store) : k \in DOMAIN store' /\ store'[k] = store[k]
     /\ ProcessedKeys(store') \subseteq PartitionKeys]_vars

C8_Witness ==
  /\ script \in {"process_news", "process_stocks"}
  /\ runs = MaxRuns
  /\ pc = "done"
  /\ failures = 0
  /\ puts # <<>>
  /\ \A i \in 1..Len(puts) : puts[i].ok

UpperLetters ==
  {"A", "B", "C", "D", "E", "F", "G", "H", "I", "J", "K", "L", "M",
   "N", "O", "P", "Q", "R", "S", "T", "U", "V", "W", "X", "Y", "Z"}

\* C9: in every price batch written, every row's volume is a non-negative
\* integer and every row's symbol is the symbol of the key, in uppercase.
C9_VolumeAndSymbol ==
  script = "process_stocks" =>
    \A i \in 1..Len(puts) :
      \A r \in 1..Len(puts[i].body.rows) :
        LET row == puts[i].body.rows[r]
        IN  /\ row.volume \in Nat
            /\ row.symbol = puts[i].key.name
            /\ \A c \in 1..Len(row.symbol) : row.symbol[c] \in UpperLetters

Polarities == -100..100

LabelIsThreshold(score, label) ==
  /\ (label = "positive") = (score > 10)
  /\ (label = "negative") = (score < -10)
  /\ (label = "neutral") = (score >= -10 /\ score <= 10)

\* C10: the label is positive iff the polarity is above 0.1, negative iff it
\* is below -0.1 and neutral otherwise, 0.1 and -0.1 included; and the label
\* of every record is that function of the record's score.
C10_LabelThresholds ==
  /\ \A p \in Polarities : LabelIsThreshold(p, get_sentiment_label(p))
  /\ (script = "process_news" /\ batch.made) =>
       \A i \in 1..Len(batch.rows) :
         LabelIsThreshold(batch.rows[i].sentiment_score, batch.rows[i].sentiment_label)

C10_Witness ==
  /\ script = "process_news"
  /\ batch.made
  /\ \E i \in 1..Len(batch.rows) :
       batch.rows[i].sentiment_score = 10 /\ batch.rows[i].sentiment_label = "neutral"
  /\ \E i \in 1..Len(batch.rows) :
       batch.rows[i].sentiment_score = -10 /\ batch.rows[i].sentiment_label = "neutral"

=============================================================================
